---- MODULE Spec2Model ----
(***************************************************************************)
(* fix_compilation.py: a script that reads a Rust source file, inserts a  *)
(* user_id field initializer with three regular-expression substitutions  *)
(* and writes the file back.                                               *)
(*                                                                         *)
(* A document is a sequence of tokens.  Every literal piece of the three  *)
(* regular expressions is one token, a whitespace character is one token, *)
(* and the remaining tokens are text no pattern literal occurs in.         *)
(***************************************************************************)
EXTENDS Integers, Sequences, FiniteSets, TLC

\* ---------------------------------------------------------------- bounds
MaxWs == 1      \* longest whitespace run in an input document
MaxOcc == 2     \* most pattern occurrences concatenated in an input document
MaxRuns == 2    \* invocations of the script
MaxExt == 2     \* overwrites by the external process

\* ---------------------------------------------------------------- tokens
SP == " "
NL == "\n"
TasksPush == "tasks.push("
OkParen == "Ok("
EntriesPush == "entries.push("
TaskBrace == "Task {"
ConvBrace == "ConversationEntry {"
IdField == "id: row.get(\"id\"),"
CaseId == "case_id:"
UserIdField == "user_id: row.get(\"user_id\"),"
CaseIdValue == "row.get(\"case_id\")"
CloseBrace == "}"
ExternalEdit == "// edited elsewhere"

db_file == "/Users/ravikadam/Documents/1learning/tasks/services/persistence-service/src/database_working.rs"

\* \s of the patterns
IsSpace(t) == t \in {SP, NL}

\* ---------------------------------------------------------------- rules
TaskPushIndent == 16
OkTaskIndent == 12
ConvIndent == 16

RECURSIVE Spaces(_)
Spaces(n) == IF n = 0 THEN <<>> ELSE <<SP>> \o Spaces(n - 1)

\* the literal head of each pattern, up to the first \s*
TaskPushPrefix == <<TasksPush, TaskBrace>>
OkTaskPrefix_Bare == <<TaskBrace>>
OkTaskPrefix == <<OkParen, TaskBrace>>
ConvPrefix == <<EntriesPush, ConvBrace>>

\* the replacement template without its newline and indentation
Inserted_NoIndent(indent) == <<UserIdField, SP>>

\* what each replacement template puts between \1 and \2
Inserted(indent) == <<UserIdField, NL>> \o Spaces(indent)

HasAt(s, i, lit) ==
    /\ i + Len(lit) - 1 <= Len(s)
    /\ SubSeq(s, i, i + Len(lit) - 1) = lit

\* \s* is greedy and what follows it is never whitespace
RECURSIVE SkipSpace(_, _)
SkipSpace(s, i) ==
    IF i <= Len(s) /\ IsSpace(s[i]) THEN SkipSpace(s, i + 1) ELSE i

\* prefix \s* id: row.get("id"), \s* without asking for case_id: after it
MatchEnd_NoCaseId(prefix, s, i) ==
    IF ~HasAt(s, i, prefix) THEN 0
    ELSE LET a == SkipSpace(s, i + Len(prefix))
         IN IF ~HasAt(s, a, <<IdField>>) THEN 0
            ELSE LET b == SkipSpace(s, a + 1)
                 IN IF b <= Len(s) THEN b ELSE 0

\* A match of (prefix\s*id: row\.get\("id"\),\s*)(case_id:) starting at i:
\* the index of its last token (group 2), or 0 when there is no match at i.
MatchEnd(prefix, s, i) ==
    IF ~HasAt(s, i, prefix) THEN 0
    ELSE LET a == SkipSpace(s, i + Len(prefix))
         IN IF ~HasAt(s, a, <<IdField>>) THEN 0
            ELSE LET b == SkipSpace(s, a + 1)
                 IN IF HasAt(s, b, <<CaseId>>) THEN b ELSE 0

\* re.sub with count=1
RECURSIVE SubFrom_First(_, _, _, _)
SubFrom_First(prefix, indent, s, i) ==
    IF i > Len(s) THEN <<>>
    ELSE LET e == MatchEnd(prefix, s, i)
         IN IF e # 0
            THEN SubSeq(s, i, e - 1) \o Inserted(indent) \o SubSeq(s, e, Len(s))
            ELSE <<s[i]>> \o SubFrom_First(prefix, indent, s, i + 1)

\* re.sub: leftmost non-overlapping matches, each replaced by
\* \1 + inserted text + \2, the scan resuming after the match
RECURSIVE SubFrom(_, _, _, _)
SubFrom(prefix, indent, s, i) ==
    IF i > Len(s) THEN <<>>
    ELSE LET e == MatchEnd(prefix, s, i)
         IN IF e # 0
            THEN SubSeq(s, i, e - 1) \o Inserted(indent) \o <<s[e]>>
                    \o SubFrom(prefix, indent, s, e + 1)
            ELSE <<s[i]>> \o SubFrom(prefix, indent, s, i + 1)

re_sub(prefix, indent, s) == SubFrom(prefix, indent, s, 1)

\* the two substitutions of fix_task_structures, the one of fix_conversation_entries
TaskSub1(s) == re_sub(TaskPushPrefix, TaskPushIndent, s)
TaskSub2(s) == re_sub(OkTaskPrefix, OkTaskIndent, s)
ConvSub(s) == re_sub(ConvPrefix, ConvIndent, s)

\* f.readline() in place of f.read()
RECURSIVE ReadFile_FirstLine(_)
ReadFile_FirstLine(file) ==
    IF file = <<>> THEN <<>>
    ELSE IF Head(file) = NL THEN <<NL>>
    ELSE <<Head(file)>> \o ReadFile_FirstLine(Tail(file))

\* f.read(): the whole file
ReadFile(file) == file

\* open(path, 'r+'): no truncation
OpenForWrite_NoTrunc(file) == file

\* open(path, 'w') truncates the file
OpenForWrite(file) == <<>>

\* f.write(content) and close: the buffered data goes out in one piece at
\* offset 0 of whatever the file holds by then
WriteAndClose(data, file) ==
    data \o SubSeq(file, Len(data) + 1, Len(file))

\* ---------------------------------------------------------------- inputs
RECURSIVE Runs(_, _)
Runs(S, n) == IF n = 0 THEN {<<>>}
              ELSE Runs(S, n - 1) \cup {<<x>> \o r : x \in S, r \in Runs(S, n - 1)}

WsRuns == Runs({SP, NL}, MaxWs)
SpRuns == Runs({SP}, MaxWs)
Prefixes == {TaskPushPrefix, OkTaskPrefix, ConvPrefix}

\* one struct literal head, every piece of it optional
Parts ==
    { o \o st \o a \o i \o b \o u \o c :
        o \in {<<>>, <<TasksPush>>, <<OkParen>>, <<EntriesPush>>},
        st \in {<<>>, <<TaskBrace>>, <<ConvBrace>>},
        a \in SpRuns, i \in {<<>>, <<IdField>>},
        b \in WsRuns, u \in {<<>>, <<UserIdField>>},
        c \in {<<>>, <<CaseId>>} }

Tails == {<<>>, <<SP, CaseIdValue, SP, CloseBrace>>}

\* a text one of the patterns matches entirely
Occurrences == { p \o <<IdField>> \o b \o <<CaseId>> :
                   p \in Prefixes, b \in {<<>>, <<NL>>} }

RECURSIVE Concats(_)
Concats(n) == IF n = 0 THEN {<<>>}
              ELSE Concats(n - 1) \cup
                   {x \o r : x \in Occurrences, r \in Concats(n - 1)}

Docs == {p \o t : p \in Parts, t \in Tails} \cup Concats(MaxOcc)

ScenarioIn == <<TaskBrace, SP, IdField, SP, CaseId, SP, CaseIdValue, SP, CloseBrace>>
ScenarioOut == <<TaskBrace, SP, IdField, SP, UserIdField, SP, CaseId, SP,
                 CaseIdValue, SP, CloseBrace>>

RaceDocs == { <<>>,
              TaskPushPrefix \o <<IdField, CaseId>>,
              OkTaskPrefix \o <<SP, IdField, NL, CaseId>>,
              ConvPrefix \o <<IdField, CaseId>> }
ExtDocs == { <<ExternalEdit>>,
             <<ExternalEdit>> \o OkTaskPrefix \o <<IdField, CaseId>>,
             <<ExternalEdit>> \o Spaces(TaskPushIndent + ConvIndent)
                \o ConvPrefix \o <<IdField, NL, CaseId>> }

\* ---------------------------------------------------------------- state
VARIABLES
    pc,          \* position of the script
    fileExists,  \* whether db_file exists
    fileContent, \* what db_file holds, as any process sees it
    content,     \* the local variable content of the running fix function
    out,         \* lines printed by this invocation
    io,          \* history: the reads and writes of this invocation
    calls,       \* history: the fix functions this invocation called
    existed,     \* history: what os.path.exists answered
    orig,        \* history: the file as this invocation found it
    runs,        \* invocations started
    prevResult,  \* history: the file as the previous invocation left it
    extAt,       \* history: positions at which the external process wrote
                 \*          since the last read
    extCount,    \* external overwrites so far
    lastExt,     \* history: what the external process wrote last
    lost         \* history: fix functions whose save discarded an external write

vars == <<pc, fileExists, fileContent, content, out, io, calls, existed, orig,
          runs, prevResult, extAt, extCount, lastExt, lost>>

extVars == <<extAt, extCount, lastExt, lost>>

FixedTaskLine == <<"Fixed Task structures in ", db_file>>
FixedConvLine == <<"Fixed ConversationEntry structures in ", db_file>>
SuccessLine == <<"Compilation fixes applied successfully!">>
NotFoundLine == <<"Database file not found: ", db_file>>

InitWith(D) ==
    /\ pc = "main"
    /\ fileExists \in BOOLEAN
    /\ fileContent \in D
    /\ ~fileExists => fileContent = <<>>
    /\ content = <<>>
    /\ out = <<>>
    /\ io = <<>>
    /\ calls = <<>>
    /\ existed = FALSE
    /\ orig = fileContent
    /\ runs = 1
    /\ prevResult = <<>>
    /\ extAt = {}
    /\ extCount = 0
    /\ lastExt = <<>>
    /\ lost = {}

Init == InitWith(Docs \cup {ScenarioIn})
InitRace == InitWith(RaceDocs)

FtsWindow == {"fts_sub1", "fts_sub2", "fts_open"}
FceWindow == {"fce_sub", "fce_open"}

\* ---------------------------------------------------------------- main
\* the missing-file branch falling through to the success line
MainCheck_FallThrough ==
    /\ pc = "main"
    /\ existed' = fileExists
    /\ pc' = IF fileExists THEN "fts_read" ELSE "main_print"
    /\ calls' = IF fileExists THEN <<"fix_task_structures">> ELSE calls
    /\ UNCHANGED <<fileExists, fileContent, content, out, io, orig, runs,
                   prevResult, extVars>>

\* if os.path.exists(db_file): fix_task_structures(db_file) ... else: ...
MainCheck ==
    /\ pc = "main"
    /\ existed' = fileExists
    /\ pc' = IF fileExists THEN "fts_read" ELSE "print_nf"
    /\ calls' = IF fileExists THEN <<"fix_task_structures">> ELSE calls
    /\ UNCHANGED <<fileExists, fileContent, content, out, io, orig, runs,
                   prevResult, extVars>>

\* ---------------------------------------------------------------- fix_task_structures
FtsRead ==
    /\ pc = "fts_read"
    /\ fileExists
    /\ content' = ReadFile(fileContent)
    /\ io' = Append(io, [op |-> "read", doc |-> content'])
    /\ extAt' = {}
    /\ pc' = "fts_sub1"
    /\ UNCHANGED <<fileExists, fileContent, out, calls, existed, orig, runs,
                   prevResult, extCount, lastExt, lost>>

FtsSub1 ==
    /\ pc = "fts_sub1"
    /\ content' = TaskSub1(content)
    /\ pc' = "fts_sub2"
    /\ UNCHANGED <<fileExists, fileContent, out, io, calls, existed, orig,
                   runs, prevResult, extVars>>

FtsSub2 ==
    /\ pc = "fts_sub2"
    /\ content' = TaskSub2(content)
    /\ pc' = "fts_open"
    /\ UNCHANGED <<fileExists, fileContent, out, io, calls, existed, orig,
                   runs, prevResult, extVars>>

FtsOpen ==
    /\ pc = "fts_open"
    /\ fileContent' = OpenForWrite(fileContent)
    /\ pc' = "fts_write"
    /\ UNCHANGED <<fileExists, content, out, io, calls, existed, orig, runs,
                   prevResult, extVars>>

\* f.write(content) and the close of the with block
FtsWrite ==
    /\ pc = "fts_write"
    /\ fileContent' = WriteAndClose(content, fileContent)
    /\ io' = Append(io, [op |-> "write", doc |-> content])
    /\ lost' = IF extAt # {} /\ extAt \subseteq FtsWindow
               THEN lost \cup {"fix_task_structures"} ELSE lost
    /\ pc' = "fts_print"
    /\ UNCHANGED <<fileExists, content, out, calls, existed, orig, runs,
                   prevResult, extAt, extCount, lastExt>>

\* returning after the print without the second call of main
FtsPrint_SkipConv ==
    /\ pc = "fts_print"
    /\ out' = Append(out, FixedTaskLine)
    /\ pc' = "main_print"
    /\ UNCHANGED <<fileExists, fileContent, content, io, calls, existed, orig,
                   runs, prevResult, extVars>>

\* the print, the return and main's call of fix_conversation_entries
FtsPrint ==
    /\ pc = "fts_print"
    /\ out' = Append(out, FixedTaskLine)
    /\ calls' = Append(calls, "fix_conversation_entries")
    /\ pc' = "fce_read"
    /\ UNCHANGED <<fileExists, fileContent, content, io, existed, orig, runs,
                   prevResult, extVars>>

\* ---------------------------------------------------------------- fix_conversation_entries
FceRead ==
    /\ pc = "fce_read"
    /\ fileExists
    /\ content' = ReadFile(fileContent)
    /\ io' = Append(io, [op |-> "read", doc |-> content'])
    /\ extAt' = {}
    /\ pc' = "fce_sub"
    /\ UNCHANGED <<fileExists, fileContent, out, calls, existed, orig, runs,
                   prevResult, extCount, lastExt, lost>>

FceSub ==
    /\ pc = "fce_sub"
    /\ content' = ConvSub(content)
    /\ pc' = "fce_open"
    /\ UNCHANGED <<fileExists, fileContent, out, io, calls, existed, orig,
                   runs, prevResult, extVars>>

FceOpen ==
    /\ pc = "fce_open"
    /\ fileContent' = OpenForWrite(fileContent)
    /\ pc' = "fce_write"
    /\ UNCHANGED <<fileExists, content, out, io, calls, existed, orig, runs,
                   prevResult, extVars>>

\* f.write(content) and the close of the with block
FceWrite ==
    /\ pc = "fce_write"
    /\ fileContent' = WriteAndClose(content, fileContent)
    /\ io' = Append(io, [op |-> "write", doc |-> content])
    /\ lost' = IF extAt # {} /\ extAt \subseteq FceWindow
               THEN lost \cup {"fix_conversation_entries"} ELSE lost
    /\ pc' = "fce_print"
    /\ UNCHANGED <<fileExists, content, out, calls, existed, orig, runs,
                   prevResult, extAt, extCount, lastExt>>

FcePrint ==
    /\ pc = "fce_print"
    /\ out' = Append(out, FixedConvLine)
    /\ pc' = "main_print"
    /\ UNCHANGED <<fileExists, fileContent, content, io, calls, existed, orig,
                   runs, prevResult, extVars>>

MainPrint ==
    /\ pc = "main_print"
    /\ out' = Append(out, SuccessLine)
    /\ pc' = "done"
    /\ UNCHANGED <<fileExists, fileContent, content, io, calls, existed, orig,
                   runs, prevResult, extVars>>

PrintNotFound ==
    /\ pc = "print_nf"
    /\ out' = Append(out, NotFoundLine)
    /\ pc' = "done"
    /\ UNCHANGED <<fileExists, fileContent, content, io, calls, existed, orig,
                   runs, prevResult, extVars>>

\* the script is started again: a new process, the same file
Rerun ==
    /\ pc = "done"
    /\ runs < MaxRuns
    /\ runs' = runs + 1
    /\ prevResult' = fileContent
    /\ orig' = fileContent
    /\ pc' = "main"
    /\ content' = <<>>
    /\ out' = <<>>
    /\ io' = <<>>
    /\ calls' = <<>>
    /\ existed' = FALSE
    /\ extAt' = {}
    /\ UNCHANGED <<fileExists, fileContent, extCount, lastExt, lost>>

\* another process overwrites the file while the script runs
ExtWrite ==
    /\ pc \notin {"main", "done"}
    /\ fileExists
    /\ extCount < MaxExt
    /\ \E e \in ExtDocs :
         /\ fileContent' = e
         /\ lastExt' = e
    /\ extCount' = extCount + 1
    /\ extAt' = extAt \cup {pc}
    /\ UNCHANGED <<pc, fileExists, content, out, io, calls, existed, orig,
                   runs, prevResult, lost>>

Next ==
    \/ MainCheck
    \/ FtsRead
    \/ FtsSub1
    \/ FtsSub2
    \/ FtsOpen
    \/ FtsWrite
    \/ FtsPrint
    \/ FceRead
    \/ FceSub
    \/ FceOpen
    \/ FceWrite
    \/ FcePrint
    \/ MainPrint
    \/ PrintNotFound
    \/ Rerun

NextRace == Next \/ ExtWrite

Spec == Init /\ [][Next]_vars
SpecRace == InitRace /\ [][NextRace]_vars

\* ---------------------------------------------------------------- vocabulary of the properties
IndentOf(p) == IF p = TaskPushPrefix THEN TaskPushIndent
               ELSE IF p = OkTaskPrefix THEN OkTaskIndent
               ELSE ConvIndent

\* user_id: row.get("user_id"), a newline and the indentation of the rule
ExpectedInsert(p) == <<UserIdField, NL>> \o [k \in 1..IndentOf(p) |-> SP]

\* s[i..j-1] is the wrapping context p, one id initializer and whitespace only
HeadSpan(p, s, i, j) ==
    /\ HasAt(s, i, p)
    /\ j - 1 <= Len(s)
    /\ \E a \in (i + Len(p))..(j - 1) :
         /\ s[a] = IdField
         /\ \A k \in ((i + Len(p))..(j - 1)) \ {a} : s[k] \in {SP, NL}

\* the positions of the case_id: tokens that close an occurrence of rule p
SitesOf(p, s) ==
    { e \in 1..Len(s) : s[e] = CaseId /\ \E i \in 1..e : HeadSpan(p, s, i, e) }

\* the same positions once the rule's text stands before them
PatchedSitesOf(p, s) ==
    { e \in 1..Len(s) :
        /\ s[e] = CaseId
        /\ \E i \in 1..e : LET j == e - Len(ExpectedInsert(p))
                           IN /\ j > i
                              /\ HeadSpan(p, s, i, j)
                              /\ SubSeq(s, j, e - 1) = ExpectedInsert(p) }

Sites(s) == { <<p, e>> \in Prefixes \X (1..Len(s)) : e \in SitesOf(p, s) }

InsertBefore(s, e, ins) == SubSeq(s, 1, e - 1) \o ins \o SubSeq(s, e, Len(s))
DeleteAt(s, e, n) == SubSeq(s, 1, e - 1) \o SubSeq(s, e + n, Len(s))
CountTok(t, s) == Cardinality({k \in 1..Len(s) : s[k] = t})

Group1(s) == TaskSub2(TaskSub1(s))
Full(s) == ConvSub(Group1(s))

Reads == {k \in 1..Len(io) : io[k].op = "read"}
Writes == {k \in 1..Len(io) : io[k].op = "write"}

\* ---------------------------------------------------------------- C1
\* C1: a second run of the script on the file the first run left writes the
\* same file back, and none of the three rules has an occurrence in it.
C1_Idempotent ==
    (pc = "done" /\ runs >= 2 /\ existed) =>
        /\ fileContent = prevResult
        /\ \A k \in 1..Len(io) : io[k].doc = prevResult
        /\ Sites(prevResult) = {}

C1_Witness ==
    /\ pc = "done" /\ runs = 2 /\ existed
    /\ fileContent = prevResult
    /\ \E p \in Prefixes : PatchedSitesOf(p, prevResult) # {}

\* ---------------------------------------------------------------- C2
\* C2: a document with one occurrence of id: row.get("id"), whitespace,
\* case_id: in a recognized wrapping context is patched to the original with
\* the rule's user_id text inserted right before that case_id:, and deleting
\* the inserted tokens gives the original back.
C2_InsertionCorrect ==
    (pc = "done" /\ runs = 1 /\ existed /\ Cardinality(Sites(orig)) = 1) =>
        \A site \in Sites(orig) :
            LET ins == ExpectedInsert(site[1])
            IN /\ fileContent = InsertBefore(orig, site[2], ins)
               /\ DeleteAt(fileContent, site[2], Len(ins)) = orig
               /\ CountTok(UserIdField, fileContent) = CountTok(UserIdField, orig) + 1

C2_Witness ==
    /\ pc = "done" /\ runs = 1 /\ existed
    /\ Cardinality(Sites(orig)) = 1
    /\ Len(fileContent) > Len(orig)
    /\ Len(orig) > 4

C4_MissingFile ==
    (pc = "done" /\ ~existed) =>
        /\ io = <<>>
        /\ calls = <<>>
        /\ out = <<NotFoundLine>>
        /\ ~fileExists
        /\ fileContent = orig

C4_Witness ==
    /\ pc = "done" /\ ~existed /\ ~fileExists
    /\ out = <<NotFoundLine>>

C6_Multiplicity ==
    (pc = "done" /\ runs = 1 /\ existed) =>
        /\ \A p \in Prefixes :
             Cardinality(SitesOf(p, orig)) >= 2 =>
                /\ Cardinality(PatchedSitesOf(p, fileContent)) = Cardinality(SitesOf(p, orig))
                /\ SitesOf(p, fileContent) = {}
        /\ (\E p \in Prefixes : Cardinality(SitesOf(p, orig)) >= 2) =>
             CountTok(UserIdField, fileContent) =
                CountTok(UserIdField, orig) + Cardinality(Sites(orig))

C6_Witness ==
    /\ pc = "done" /\ runs = 1 /\ existed
    /\ \E p \in Prefixes :
         /\ Cardinality(SitesOf(p, orig)) = 2
         /\ Cardinality(PatchedSitesOf(p, fileContent)) = 2

\* ---------------------------------------------------------------- C7
\* C7 as stated: the file always holds the original contents or the contents
\* with every rule group applied.
C7_NoPartialAsStated ==
    existed => fileContent \in {orig, Full(orig)}

\* C7 amended: with no other writer, the file holds the original contents up
\* to the first open for writing, nothing between each truncating open and
\* the write that follows it, the contents with rule group 1 only from the
\* first save to the second open for writing, and the fully substituted
\* contents after the second save.
C7_FileStates ==
    /\ pc \in {"main", "fts_read", "fts_sub1", "fts_sub2", "fts_open", "print_nf"}
          => fileContent = orig
    /\ pc = "fts_write" =>
          /\ fileContent = <<>>
          /\ content = Group1(orig)
    /\ pc \in {"fts_print", "fce_read", "fce_sub", "fce_open"}
          => fileContent = Group1(orig)
    /\ pc = "fce_write" =>
          /\ fileContent = <<>>
          /\ content = Full(orig)
    /\ pc \in {"fce_print", "main_print"} => fileContent = Full(orig)
    /\ pc = "done" => fileContent = IF existed THEN Full(orig) ELSE orig

C7_Witness ==
    /\ pc = "fce_open"
    /\ fileContent = Group1(orig)
    /\ fileContent # orig
    /\ fileContent # Full(orig)

\* ---------------------------------------------------------------- C8
\* C8 as stated: a run on an existing file reads it once and writes it once,
\* after both rule groups.
C8_OneReadOneWriteAsStated ==
    (pc = "done" /\ existed) =>
        /\ Cardinality(Reads) = 1
        /\ Cardinality(Writes) = 1
        /\ \A k \in Writes : io[k].doc = Full(orig)

\* C8 amended: a run on an existing file is load, rule group 1, save, load,
\* rule group 2, save: two reads and two writes, the first write holding the
\* result of group 1 only, the second load reading that back, the second
\* write holding the result of both groups.
C8_Pipeline ==
    /\ (pc = "done" /\ existed) =>
          /\ io = << [op |-> "read", doc |-> orig],
                     [op |-> "write", doc |-> Group1(orig)],
                     [op |-> "read", doc |-> Group1(orig)],
                     [op |-> "write", doc |-> Full(orig)] >>
          /\ calls = <<"fix_task_structures", "fix_conversation_entries">>
          /\ out = <<FixedTaskLine, FixedConvLine, SuccessLine>>
    /\ pc \in {"fts_sub1", "fts_sub2", "fts_open", "fts_write"} => Len(io) = 1
    /\ pc \in {"fts_print", "fce_read"} => Len(io) = 2
    /\ pc \in {"fce_sub", "fce_open", "fce_write"} => Len(io) = 3
    /\ pc \in {"fce_print", "main_print"} => Len(io) = 4

C8_Witness ==
    /\ pc = "done" /\ existed /\ runs = 1
    /\ Len(io) = 4
    /\ io[2].doc # io[1].doc
    /\ io[4].doc # io[3].doc

\* ---------------------------------------------------------------- C9
\* C9: the run's result, group 1 then group 2, equals group 2 then group 1,
\* and equals the result with the two Task rules in the other order.
C9_Commute ==
    (pc = "done" /\ existed) =>
        /\ fileContent = Group1(ConvSub(orig))
        /\ fileContent = ConvSub(TaskSub1(TaskSub2(orig)))
        /\ ConvSub(TaskSub1(orig)) = TaskSub1(ConvSub(orig))
        /\ ConvSub(TaskSub2(orig)) = TaskSub2(ConvSub(orig))

C9_Witness ==
    /\ pc = "done" /\ existed /\ runs = 1
    /\ Cardinality({p \in Prefixes : SitesOf(p, orig) # {}}) >= 2
    /\ Cardinality(Sites(orig)) = 2
    /\ fileContent = Group1(ConvSub(orig))
    /\ fileContent # orig

====
